---- MODULE Spec2Model ----
(***************************************************************************)
(* A model of sparse_matrix.py: the SparseMatrix class (a dictionary from  *)
(* (row, col) to a non-zero integer, plus declared dimensions), its        *)
(* arithmetic, and its text codec (from_file, __str__, save_to_file).      *)
(*                                                                         *)
(* Objects live in `heap` (a reference is an index into it).  A Python     *)
(* dict is modelled as a function whose domain is the set of stored keys;  *)
(* the order in which a dict or a set is enumerated depends on the         *)
(* insertion history (dict) or on hashing (set), so every loop over one    *)
(* takes its enumeration order as a nondeterministic choice among all the  *)
(* orders.  Text is a sequence of one-character strings.                   *)
(***************************************************************************)
EXTENDS Integers, Sequences, FiniteSets, TLC

\* ------------------------------------------------------------------ bounds
MaxDim == 2
MaxNnz == 1
MaxInner == 3
MaxVal == 1
MaxResults == 2
MaxSets == 2
MaxEnum == 5
MaxLines == 4

Dims == 1..MaxDim
Values == (0 - MaxVal)..MaxVal
NonZero == Values \ {0}
\* the declared shapes of the operands of add and subtract
Shapes == Dims \X Dims
\* the cells inside the declared bounds of a num_rows x num_cols matrix
Cells(num_rows, num_cols) == (0..(num_rows - 1)) \X (0..(num_cols - 1))
\* the coordinates the model reads and writes: the cells inside the bounds and
\* the first coordinates outside them
Window(num_rows, num_cols) == (0..num_rows) \X (0..num_cols)
Keys == (0..(MaxDim + MaxInner)) \X (0..(MaxDim + MaxInner))

VARIABLES heap, origin, last_set, nsets, disk, call

vars == <<heap, origin, last_set, nsets, disk, call>>

\* ------------------------------------------------------------- exceptions
NoError == [type |-> "", msg |-> "", cause |-> ""]

ValueError(msg, cause) == [type |-> "ValueError", msg |-> msg, cause |-> cause]

\* IOError is OSError
IOError(msg, cause) == [type |-> "OSError", msg |-> msg, cause |-> cause]

\* ------------------------------------------------------------ SparseMatrix
EmptyDict == [k \in {} |-> 0]

SparseMatrix(num_rows, num_cols) ==
    [num_rows |-> num_rows, num_cols |-> num_cols, data |-> EmptyDict]

get_element(self, row, col) ==
    IF <<row, col>> \in DOMAIN self.data THEN self.data[<<row, col>>] ELSE 0

\* a set_element that stores the value whatever it is
set_element_store_zero(self, row, col, value) ==
    [self EXCEPT !.data =
        [k \in (DOMAIN self.data) \cup {<<row, col>>} |->
            IF k = <<row, col>> THEN value ELSE self.data[k]]]

\* a set_element that leaves a coordinate already stored as it is
set_element_keep(self, row, col, value) ==
    IF <<row, col>> \in DOMAIN self.data THEN self
    ELSE IF value # 0
    THEN [self EXCEPT !.data =
            [k \in (DOMAIN self.data) \cup {<<row, col>>} |->
                IF k = <<row, col>> THEN value ELSE self.data[k]]]
    ELSE self

set_element(self, row, col, value) ==
    IF value # 0
    THEN [self EXCEPT !.data =
            [k \in (DOMAIN self.data) \cup {<<row, col>>} |->
                IF k = <<row, col>> THEN value ELSE self.data[k]]]
    ELSE IF <<row, col>> \in DOMAIN self.data
         THEN [self EXCEPT !.data =
                 [k \in (DOMAIN self.data) \ {<<row, col>>} |-> self.data[k]]]
         ELSE self

\* every order in which the members of S can be enumerated
RECURSIVE Orders(_)
Orders(S) ==
    IF S = {} THEN {<<>>}
    ELSE UNION {{<<x>> \o p : p \in Orders(S \ {x})} : x \in S}

\* add: the loop of lines 68-70 over all_keys, enumerated as `keys`
RECURSIVE add_loop(_, _, _, _)
add_loop(self, other, result, keys) ==
    IF keys = <<>> THEN result
    ELSE LET key == Head(keys)
             val == get_element(self, key[1], key[2])
                      + get_element(other, key[1], key[2])
         IN add_loop(self, other, set_element(result, key[1], key[2], val), Tail(keys))

\* a check that rejects only operands differing in both dimensions
add_mismatch_both(self, other) ==
    self.num_rows # other.num_rows /\ self.num_cols # other.num_cols

add_mismatch(self, other) ==
    self.num_rows # other.num_rows \/ self.num_cols # other.num_cols

\* the keys of self alone
add_keys_self(self, other) == DOMAIN self.data

\* all_keys of add (line 66)
add_keys(self, other) == (DOMAIN self.data) \cup (DOMAIN other.data)

add(self, other, keys) ==
    add_loop(self, other, SparseMatrix(self.num_rows, self.num_cols), keys)

\* subtract: the loop of lines 82-84
RECURSIVE subtract_loop(_, _, _, _)
subtract_loop(self, other, result, keys) ==
    IF keys = <<>> THEN result
    ELSE LET key == Head(keys)
             val == get_element(self, key[1], key[2])
                      - get_element(other, key[1], key[2])
         IN subtract_loop(self, other, set_element(result, key[1], key[2], val),
                          Tail(keys))

subtract_mismatch(self, other) ==
    self.num_rows # other.num_rows \/ self.num_cols # other.num_cols

\* the keys of self alone
subtract_keys_self(self, other) == DOMAIN self.data

\* all_keys of subtract (line 80)
subtract_keys(self, other) == (DOMAIN self.data) \cup (DOMAIN other.data)

subtract(self, other, keys) ==
    subtract_loop(self, other, SparseMatrix(self.num_rows, self.num_cols), keys)

\* an inner loop that stores each product instead of adding it to the entry
RECURSIVE multiply_cols_overwrite(_, _, _, _, _, _)
multiply_cols_overwrite(other, result, i, k, val1, j) ==
    IF j >= other.num_cols THEN result
    ELSE LET val2 == get_element(other, k, j)
         IN multiply_cols_overwrite(other,
                                    IF val2 # 0
                                    THEN set_element(result, i, j, val1 * val2)
                                    ELSE result,
                                    i, k, val1, j + 1)

\* multiply: the inner loop of lines 96-100, j running over range(other.num_cols)
RECURSIVE multiply_cols(_, _, _, _, _, _)
multiply_cols(other, result, i, k, val1, j) ==
    IF j >= other.num_cols THEN result
    ELSE LET val2 == get_element(other, k, j)
             prev == get_element(result, i, j)
         IN multiply_cols(other,
                          IF val2 # 0
                          THEN set_element(result, i, j, prev + val1 * val2)
                          ELSE result,
                          i, k, val1, j + 1)

\* multiply: the outer loop of line 95 over self.data.items(), enumerated as `keys`
RECURSIVE multiply_loop(_, _, _, _)
multiply_loop(self, other, result, keys) ==
    IF keys = <<>> THEN result
    ELSE LET key == Head(keys)
         IN multiply_loop(self, other,
                          multiply_cols(other, result, key[1], key[2],
                                        self.data[key], 0),
                          Tail(keys))

multiply_mismatch(self, other) == self.num_cols # other.num_rows

multiply(self, other, keys) ==
    multiply_loop(self, other, SparseMatrix(self.num_rows, other.num_cols), keys)

\* ---------------------------------------------------------------- strings
\* a string is a sequence of one-character strings
Digits == <<"0", "1", "2", "3", "4", "5", "6", "7", "8", "9">>

IsDigit(ch) == \E d \in 1..10 : Digits[d] = ch

DigitValue(ch) == (CHOOSE d \in 1..10 : Digits[d] = ch) - 1

IsSpace(ch) == ch = " " \/ ch = "\n"

\* str.strip()
RECURSIVE lstrip(_)
lstrip(s) == IF s # <<>> /\ IsSpace(Head(s)) THEN lstrip(Tail(s)) ELSE s

RECURSIVE rstrip(_)
rstrip(s) ==
    IF s # <<>> /\ IsSpace(s[Len(s)]) THEN rstrip(SubSeq(s, 1, Len(s) - 1)) ELSE s

strip(s) == rstrip(lstrip(s))

\* str.startswith(prefix), str.endswith(suffix)
startswith(s, prefix) ==
    Len(s) >= Len(prefix) /\ SubSeq(s, 1, Len(prefix)) = prefix

endswith(s, suffix) ==
    Len(s) >= Len(suffix) /\ SubSeq(s, Len(s) - Len(suffix) + 1, Len(s)) = suffix

\* str.split(sep) for a one-character sep
RECURSIVE split(_, _)
split(s, sep) ==
    IF \A i \in 1..Len(s) : s[i] # sep THEN <<s>>
    ELSE LET i == CHOOSE j \in 1..Len(s) :
                    s[j] = sep /\ \A h \in 1..(j - 1) : s[h] # sep
         IN <<SubSeq(s, 1, i - 1)>> \o split(SubSeq(s, i + 1, Len(s)), sep)

\* sep.join(parts)
RECURSIVE join(_, _)
join(sep, parts) ==
    IF parts = <<>> THEN <<>>
    ELSE IF Len(parts) = 1 THEN parts[1]
    ELSE parts[1] \o <<sep>> \o join(sep, Tail(parts))

\* int(s): surrounding whitespace, an optional sign, one or more digits
Unsigned(s) == IF s # <<>> /\ (Head(s) = "-" \/ Head(s) = "+") THEN Tail(s) ELSE s

is_int(s) ==
    LET u == Unsigned(strip(s))
    IN u # <<>> /\ \A i \in 1..Len(u) : IsDigit(u[i])

RECURSIVE digits_value(_)
digits_value(u) ==
    IF u = <<>> THEN 0
    ELSE 10 * digits_value(SubSeq(u, 1, Len(u) - 1)) + DigitValue(u[Len(u)])

int(s) ==
    LET t == strip(s)
    IN IF Head(t) = "-" THEN 0 - digits_value(Unsigned(t))
       ELSE digits_value(Unsigned(t))

\* str(n) for an integer n
RECURSIVE digits_of(_)
digits_of(n) ==
    IF n < 10 THEN <<Digits[n + 1]>>
    ELSE digits_of(n \div 10) \o <<Digits[(n % 10) + 1]>>

str_int(n) == IF n < 0 THEN <<"-">> \o digits_of(0 - n) ELSE digits_of(n)

\* ------------------------------------------------------------------- codec
ROWS == <<"r", "o", "w", "s", "=">>

COLS == <<"c", "o", "l", "s", "=">>

WrongFormat == "Input file has wrong format"

\* the lines of an open file that are not blank, stripped (line 19)
file_lines(text) ==
    LET raw == split(text, "\n")
    IN SelectSeq([i \in 1..Len(raw) |-> strip(raw[i])], LAMBDA l : l # <<>>)

\* one entry line (lines 29-41): the parsed fields, or the failure
entry_ok(line) ==
    /\ startswith(line, <<"(">>)
    /\ endswith(line, <<")">>)
    /\ LET parts == split(SubSeq(line, 2, Len(line) - 1), ",")
       IN /\ Len(parts) = 3
          /\ \A i \in 1..3 : is_int(strip(parts[i]))

entry_fields(line) ==
    LET parts == split(SubSeq(line, 2, Len(line) - 1), ",")
    IN [i \in 1..3 |-> int(strip(parts[i]))]

\* a loop in which the first line naming a coordinate wins
RECURSIVE from_file_loop_first_wins(_, _)
from_file_loop_first_wins(matrix, lines) ==
    IF lines = <<>> THEN [err |-> NoError, matrix |-> matrix]
    ELSE IF ~entry_ok(Head(lines))
    THEN [err |-> ValueError(WrongFormat, "ValueError"), matrix |-> matrix]
    ELSE LET f == entry_fields(Head(lines))
         IN from_file_loop_first_wins(
                IF <<f[1], f[2]>> \in DOMAIN matrix.data THEN matrix
                ELSE set_element(matrix, f[1], f[2], f[3]),
                Tail(lines))

\* the loop of lines 28-43 over lines[2:]
RECURSIVE from_file_loop(_, _)
from_file_loop(matrix, lines) ==
    IF lines = <<>> THEN [err |-> NoError, matrix |-> matrix]
    ELSE IF ~entry_ok(Head(lines))
    THEN [err |-> ValueError(WrongFormat, "ValueError"), matrix |-> matrix]
    ELSE LET f == entry_fields(Head(lines))
         IN from_file_loop(set_element(matrix, f[1], f[2], f[3]), Tail(lines))

\* from_file on a file that opens (lines 19-47); every exception raised inside
\* the try block is replaced by ValueError(WrongFormat), chained to it
from_file(text) ==
    LET lines == file_lines(text)
        bad(cause) == [err |-> ValueError(WrongFormat, cause),
                       matrix |-> SparseMatrix(0, 0)]
    IN IF Len(lines) < 1 THEN bad("IndexError")
       ELSE IF ~startswith(lines[1], ROWS) THEN bad("ValueError")
       ELSE IF Len(lines) < 2 THEN bad("IndexError")
       ELSE IF ~startswith(lines[2], COLS) THEN bad("ValueError")
       ELSE IF ~is_int(split(lines[1], "=")[2]) THEN bad("ValueError")
       ELSE IF ~is_int(split(lines[2], "=")[2]) THEN bad("ValueError")
       ELSE from_file_loop(SparseMatrix(int(split(lines[1], "=")[2]),
                                        int(split(lines[2], "=")[2])),
                           SubSeq(lines, 3, Len(lines)))

\* tuple comparison of two items ((r, c), v) of a dictionary
item_less(a, b) ==
    \/ a[1][1] < b[1][1]
    \/ a[1][1] = b[1][1] /\ a[1][2] < b[1][2]
    \/ a[1] = b[1] /\ a[2] < b[2]

\* sorted(items)
RECURSIVE insert_sorted(_, _)
insert_sorted(item, done) ==
    IF done = <<>> THEN <<item>>
    ELSE IF item_less(item, Head(done)) THEN <<item>> \o done
    ELSE <<Head(done)>> \o insert_sorted(item, Tail(done))

\* the items as enumerated
unsorted(items) == items

RECURSIVE sorted(_)
sorted(items) ==
    IF items = <<>> THEN <<>> ELSE insert_sorted(Head(items), sorted(Tail(items)))

\* f"({r}, {c}, {v})" (line 108)
entry_line(r, c, v) ==
    <<"(">> \o str_int(r) \o <<",", " ">> \o str_int(c) \o <<",", " ">>
        \o str_int(v) \o <<")">>

\* __str__ (lines 104-109), self.data.items() enumerated as `keys`
str_lines(self, keys) ==
    LET items == sorted([i \in 1..Len(keys) |-> <<keys[i], self.data[keys[i]]>>])
    IN <<ROWS \o str_int(self.num_rows), COLS \o str_int(self.num_cols)>>
         \o [i \in 1..Len(items) |->
                entry_line(items[i][1][1], items[i][1][2], items[i][2])]

str(self, keys) == join("\n", str_lines(self, keys))

\* ------------------------------------------------------------ call records
Call(op, self, other, row, col, value, ret, err) ==
    [op |-> op, self |-> self, other |-> other, row |-> row, col |-> col,
     value |-> value, path |-> "", ret |-> ret, text |-> <<>>, err |-> err]

NoCall == Call("init", 0, 0, 0, 0, 0, 0, NoError)

Origin(op, self, other) == [op |-> op, self |-> self, other |-> other]

NeverSet == [k \in Keys |-> 0]

Refs == 1..Len(heap)

\* the objects arithmetic has returned
Results == {i \in Refs : origin[i].op # "new"}

\* the canonical dictionaries over the coordinates K with at most n entries
Dicts(K, n) ==
    UNION {[S -> NonZero] : S \in {T \in SUBSET K : Cardinality(T) <= n}}

\* the matrices set_element can build from SparseMatrix(s[1], s[2]): at most n
\* entries, inside the declared bounds or at the coordinates `outside`
Built(s, outside, n) ==
    {[num_rows |-> s[1], num_cols |-> s[2], data |-> d] :
        d \in Dicts(Cells(s[1], s[2]) \cup outside, n)}

\* operands of any shape, with entries also at the corner outside the bounds
Operands == UNION {Built(s, {s}, MaxNnz) : s \in Shapes}

\* row vectors, with entries also in the column after the last
RowOperands == UNION {Built(<<1, k>>, {<<0, k>>}, k + 1) : k \in 1..MaxInner}

\* column vectors, with entries also in the row after the last
ColOperands == UNION {Built(<<k, 1>>, {<<k, 0>>}, k + 1) : k \in 1..MaxInner}

\* the matrices of the worked examples: M1, and the 2 x 2 identity
Example1 == [num_rows |-> 2, num_cols |-> 2,
             data |-> (<<0, 0>> :> 1) @@ (<<0, 1>> :> 2) @@ (<<1, 0>> :> 3)
                        @@ (<<1, 1>> :> 4)]

Identity2 == [num_rows |-> 2, num_cols |-> 2,
              data |-> (<<0, 0>> :> 1) @@ (<<1, 1>> :> 1)]

\* ------------------------------------------------------------------ actions
SetElement ==
    /\ nsets < MaxSets
    /\ \E self \in Refs :
       \E key \in Window(heap[self].num_rows, heap[self].num_cols), value \in Values :
        /\ heap' = [heap EXCEPT ![self] = set_element(heap[self], key[1], key[2], value)]
        /\ last_set' = [last_set EXCEPT ![self][key] = value]
        /\ call' = Call("set_element", self, 0, key[1], key[2], value, 0, NoError)
    /\ nsets' = nsets + 1
    /\ UNCHANGED <<origin, disk>>

GetElement ==
    /\ \E self \in Refs :
       \E key \in Window(heap[self].num_rows, heap[self].num_cols) :
        call' = Call("get_element", self, 0, key[1], key[2], 0,
                     get_element(heap[self], key[1], key[2]), NoError)
    /\ UNCHANGED <<heap, origin, last_set, nsets, disk>>

\* an operation that builds its result in self
ReturnsInPlace(op, self, other, result) ==
    /\ heap' = Append([heap EXCEPT ![self] = result], result)
    /\ origin' = Append(origin, Origin(op, self, other))
    /\ last_set' = Append(last_set, NeverSet)
    /\ call' = Call(op, self, other, 0, 0, 0, Len(heap) + 1, NoError)
    /\ UNCHANGED <<nsets, disk>>

\* self.op(other) returning a new object, or raising
Returns(op, self, other, result) ==
    /\ heap' = Append(heap, result)
    /\ origin' = Append(origin, Origin(op, self, other))
    /\ last_set' = Append(last_set, NeverSet)
    /\ call' = Call(op, self, other, 0, 0, 0, Len(heap) + 1, NoError)
    /\ UNCHANGED <<nsets, disk>>

Raises(op, self, other, err) ==
    /\ call' = Call(op, self, other, 0, 0, 0, 0, err)
    /\ UNCHANGED <<heap, origin, last_set, nsets, disk>>

\* the model enumerates dictionaries and key sets of at most MaxEnum members
Enumerable(S) == Cardinality(S) <= MaxEnum

Add ==
    /\ Cardinality(Results) < MaxResults
    /\ \E self \in Refs, other \in Refs :
        /\ Enumerable(add_keys(heap[self], heap[other]))
        /\ IF add_mismatch(heap[self], heap[other])
           THEN Raises("add", self, other,
                    ValueError("Addition requires matrices of same dimensions", ""))
           ELSE \E keys \in Orders(add_keys(heap[self], heap[other])) :
                Returns("add", self, other, add(heap[self], heap[other], keys))

Subtract ==
    /\ Cardinality(Results) < MaxResults
    /\ \E self \in Refs, other \in Refs :
        /\ Enumerable(subtract_keys(heap[self], heap[other]))
        /\ IF subtract_mismatch(heap[self], heap[other])
           THEN Raises("subtract", self, other,
                    ValueError("Subtraction requires matrices of same dimensions", ""))
           ELSE \E keys \in Orders(subtract_keys(heap[self], heap[other])) :
                Returns("subtract", self, other,
                        subtract(heap[self], heap[other], keys))

Multiply ==
    /\ Cardinality(Results) < MaxResults
    /\ \E self \in Refs, other \in Refs :
        /\ Enumerable(DOMAIN heap[self].data)
        /\ IF multiply_mismatch(heap[self], heap[other])
           THEN Raises("multiply", self, other,
                    ValueError("Multiplication requires self.cols == other.rows", ""))
           ELSE \E keys \in Orders(DOMAIN heap[self].data) :
                Returns("multiply", self, other,
                        multiply(heap[self], heap[other], keys))

\* the file at a path: whether open(path, 'r') and open(path, 'w') succeed, and
\* what it holds
Paths == {"in", "out"}

File(text) == [exists |-> TRUE, writable |-> TRUE, text |-> text]

NoFile(writable) == [exists |-> FALSE, writable |-> writable, text |-> <<>>]

NoFiles == [p \in Paths |-> NoFile(TRUE)]

FromFile ==
    /\ Cardinality(Results) < MaxResults
    /\ \E path \in Paths :
        LET got == IF disk[path].exists THEN from_file(disk[path].text)
                   ELSE [err |-> ValueError(WrongFormat, "FileNotFoundError"),
                         matrix |-> SparseMatrix(0, 0)]
        IN IF got.err = NoError
           THEN /\ heap' = Append(heap, got.matrix)
                /\ origin' = Append(origin, Origin("from_file", 0, 0))
                /\ last_set' = Append(last_set, NeverSet)
                /\ call' = [Call("from_file", 0, 0, 0, 0, 0, Len(heap) + 1, NoError)
                              EXCEPT !.path = path]
           ELSE /\ call' = [Call("from_file", 0, 0, 0, 0, 0, 0, got.err)
                              EXCEPT !.path = path]
                /\ UNCHANGED <<heap, origin, last_set>>
    /\ UNCHANGED <<nsets, disk>>

Str ==
    /\ \E self \in Refs :
        /\ Enumerable(DOMAIN heap[self].data)
        /\ \E keys \in Orders(DOMAIN heap[self].data) :
            call' = [Call("__str__", self, 0, 0, 0, 0, 0, NoError)
                       EXCEPT !.text = str(heap[self], keys)]
    /\ UNCHANGED <<heap, origin, last_set, nsets, disk>>

SaveToFile ==
    /\ \E self \in Refs, path \in Paths :
        /\ Enumerable(DOMAIN heap[self].data)
        /\ IF disk[path].writable
           THEN \E keys \in Orders(DOMAIN heap[self].data) :
                /\ disk' = [disk EXCEPT ![path] = File(str(heap[self], keys))]
                /\ call' = [Call("save_to_file", self, 0, 0, 0, 0, 0, NoError)
                              EXCEPT !.path = path]
           ELSE /\ call' = [Call("save_to_file", self, 0, 0, 0, 0, 0,
                                 IOError("Failed to write to file: " \o path,
                                         "FileNotFoundError"))
                              EXCEPT !.path = path]
                /\ UNCHANGED disk
    /\ UNCHANGED <<heap, origin, last_set, nsets>>

\* ----------------------------------------------------------- specifications
Fresh(n) == [i \in 1..n |-> Origin("new", 0, 0)]

Unset(n) == [i \in 1..n |-> NeverSet]

\* one matrix as constructed, then set_element and get_element on it
InitSet ==
    /\ \E num_rows \in 0..MaxDim, num_cols \in 0..MaxDim :
          heap = <<SparseMatrix(num_rows, num_cols)>>
    /\ origin = Fresh(1)
    /\ last_set = Unset(1)
    /\ nsets = 0
    /\ disk = NoFiles
    /\ call = NoCall

NextSet == SetElement \/ GetElement

SpecSet == InitSet /\ [][NextSet]_vars

\* one matrix as constructed; then set_element on it, arithmetic on it and on
\* the results, and set_element on those
Init ==
    /\ \E s \in Shapes : heap = <<SparseMatrix(s[1], s[2])>>
    /\ origin = Fresh(1)
    /\ last_set = Unset(1)
    /\ nsets = 0
    /\ disk = NoFiles
    /\ call = NoCall

Next == SetElement \/ Add \/ Subtract \/ Multiply

Spec == Init /\ [][Next]_vars

\* two operands the caller has built, then arithmetic on them and on its results
InitArith ==
    /\ \E M \in Operands \cup {Example1, Identity2}, N \in Operands \cup {Example1, Identity2} :
          heap = <<M, N>>
    /\ origin = Fresh(2)
    /\ last_set = Unset(2)
    /\ nsets = 0
    /\ disk = NoFiles
    /\ call = NoCall

NextArith == Add \/ Subtract \/ Multiply

SpecArith == InitArith /\ [][NextArith]_vars

\* a row vector and a column vector the caller has built, then products of
\* them and of the results
InitMul ==
    /\ \E A \in RowOperands \cup {Example1}, B \in ColOperands \cup {Identity2} :
          heap = <<A, B>>
    /\ origin = Fresh(2)
    /\ last_set = Unset(2)
    /\ nsets = 0
    /\ disk = NoFiles
    /\ call = NoCall

NextMul == Multiply

SpecMul == InitMul /\ [][NextMul]_vars

\* the lines the model writes into the input file: headers, entry lines (one
\* that removes, one with other spacing and a sign), and malformed lines (no
\* parentheses, two fields, a field that is no integer, a blank line)
LinePool ==
    {<<"r", "o", "w", "s", "=", "2">>,
     <<"c", "o", "l", "s", "=", "2">>,
     <<"(", "0", ",", " ", "0", ",", " ", "5", ")">>,
     <<"(", "0", ",", " ", "0", ",", " ", "0", ")">>,
     <<"(", "1", ",", " ", "0", ",", " ", "-", "1", ")">>,
     <<" ", "(", "0", ",", "1", ",", " ", "+", "2", ")", " ">>,
     <<"0", ",", " ", "0", ",", " ", "5">>,
     <<"(", "0", ",", " ", "0", ")">>,
     <<"(", "0", ",", " ", "x", ",", " ", "1", ")">>,
     <<>>}

TextsOf(n) == {join("\n", ls) : ls \in [1..n -> LinePool]}

Texts == UNION {TextsOf(n) : n \in 0..MaxLines}

\* an input file of up to MaxLines lines and an output path that can or cannot
\* be written; then from_file on either, and save_to_file of what was read
InitDecode ==
    /\ heap = <<>>
    /\ origin = <<>>
    /\ last_set = <<>>
    /\ nsets = 0
    /\ \E text \in Texts, writable \in BOOLEAN :
          disk = [p \in Paths |-> IF p = "in" THEN File(text) ELSE NoFile(writable)]
    /\ call = NoCall

NextDecode == FromFile \/ SaveToFile

SpecDecode == InitDecode /\ [][NextDecode]_vars

\* the matrix of the encoding example, and one with wider numbers
Example4 == [num_rows |-> 2, num_cols |-> 2,
             data |-> (<<1, 0>> :> 3) @@ (<<0, 1>> :> 2)]

Wide == [num_rows |-> 12, num_cols |-> 10,
         data |-> (<<11, 2>> :> 120) @@ (<<2, 11>> :> -7) @@ (<<2, 9>> :> 10)
                    @@ (<<0, 0>> :> -105)]

\* a matrix the caller has built; then __str__, save_to_file and from_file
InitEncode ==
    /\ \E M \in Operands \cup RowOperands \cup {Example1, Identity2, Example4, Wide} :
          heap = <<M>>
    /\ origin = Fresh(1)
    /\ last_set = Unset(1)
    /\ nsets = 0
    /\ \E writable \in BOOLEAN :
          disk = [p \in Paths |-> IF p = "in" THEN NoFile(TRUE) ELSE NoFile(writable)]
    /\ call = NoCall

NextEncode == Str \/ SaveToFile \/ FromFile

SpecEncode == InitEncode /\ [][NextEncode]_vars

\* ------------------------------------------------------------------ claims
ArithOps == {"add", "subtract", "multiply"}

Canonical(m) == \A k \in DOMAIN m.data : m.data[k] # 0

Nnz(m) == Cardinality(DOMAIN m.data)

InBounds(m) == DOMAIN m.data \subseteq Cells(m.num_rows, m.num_cols)

DimensionMessages ==
    {"Addition requires matrices of same dimensions",
     "Subtraction requires matrices of same dimensions",
     "Multiplication requires self.cols == other.rows"}

IsDimensionMismatch(e) == e.type = "ValueError" /\ e.msg \in DimensionMessages

IsFormatError(e) == e.type = "ValueError" /\ e.msg = WrongFormat

IsStorageError(e) == e.type = "OSError"

\* C1: no object of the heap, built by set_element or returned by add, subtract
\* or multiply, stores a 0; and after set_element(r, c, 0) get_element(r, c) is 0
\* and (r, c) is not stored.
C1_CanonicalForm ==
    /\ \A i \in Refs : Canonical(heap[i])
    /\ (call.op = "set_element" /\ call.value = 0) =>
          /\ get_element(heap[call.self], call.row, call.col) = 0
          /\ <<call.row, call.col>> \notin DOMAIN heap[call.self].data

\* set_element(r, c, 0) has just removed an entry the matrix held (its sum with
\* itself, taken before, still holds it), and a difference has cancelled
C1_Witness ==
    /\ call.op = "set_element" /\ call.value = 0 /\ call.self = 1
    /\ \E i \in Results :
          /\ origin[i] = Origin("add", 1, 1)
          /\ <<call.row, call.col>> \in DOMAIN heap[i].data
          /\ \E j \in Results :
                /\ origin[j] = Origin("subtract", i, i)
                /\ heap[j].data = EmptyDict

\* sum over k in [0, n) of A.get(i, k) * B.get(k, j)
RECURSIVE DotSum(_, _, _, _, _)
DotSum(A, B, i, j, n) ==
    IF n <= 0 THEN 0
    ELSE DotSum(A, B, i, j, n - 1) + get_element(A, i, n - 1) * get_element(B, n - 1, j)

\* C2: when the entries of A and B lie within their bounds, A.multiply(B) has
\* rows = A.rows, cols = B.cols, the value sum_k A(i,k) * B(k,j) at every (i, j)
\* and exactly the non-zero sums stored, whatever the order in which A's entries
\* were enumerated; multiplying by the identity returns A's entries.
C2_MultiplyIsProduct ==
    (call.op = "multiply" /\ call.err = NoError
       /\ InBounds(heap[call.self]) /\ InBounds(heap[call.other])) =>
        LET A == heap[call.self]
            B == heap[call.other]
            R == heap[call.ret]
        IN /\ R.num_rows = A.num_rows
           /\ R.num_cols = B.num_cols
           /\ \A key \in Keys :
                get_element(R, key[1], key[2]) = DotSum(A, B, key[1], key[2], A.num_cols)
           /\ DOMAIN R.data =
                {key \in Keys : DotSum(A, B, key[1], key[2], A.num_cols) # 0}
           /\ B = Identity2 => R.data = A.data

\* a product of three terms whose first two cancel and whose sum is not 0
C2_Witness ==
    /\ call.op = "multiply" /\ call.err = NoError
    /\ InBounds(heap[call.self]) /\ InBounds(heap[call.other])
    /\ LET A == heap[call.self]
           B == heap[call.other]
       IN /\ A.num_cols = 3
          /\ \A k \in 0..2 : get_element(A, 0, k) * get_element(B, k, 0) # 0
          /\ get_element(A, 0, 0) * get_element(B, 0, 0)
               + get_element(A, 0, 1) * get_element(B, 1, 0) = 0
          /\ get_element(heap[call.ret], 0, 0) # 0

\* C3: M.add(N) has the dimensions of M and N, the value M(r,c) + N(r,c) at every
\* coordinate, and stores exactly the coordinates where that sum is not 0.
C3_AddIsSum ==
    (call.op = "add" /\ call.err = NoError) =>
        LET M == heap[call.self]
            N == heap[call.other]
            R == heap[call.ret]
        IN /\ R.num_rows = M.num_rows /\ R.num_rows = N.num_rows
           /\ R.num_cols = M.num_cols /\ R.num_cols = N.num_cols
           /\ \A key \in Keys :
                get_element(R, key[1], key[2]) =
                    get_element(M, key[1], key[2]) + get_element(N, key[1], key[2])
           /\ DOMAIN R.data =
                {key \in Keys :
                    get_element(M, key[1], key[2]) + get_element(N, key[1], key[2]) # 0}
           /\ (M = Example1 /\ N = Identity2) =>
                R.data = (<<0, 0>> :> 2) @@ (<<0, 1>> :> 2) @@ (<<1, 0>> :> 3)
                           @@ (<<1, 1>> :> 5)

\* a sum of two different objects in which one coordinate cancels and another,
\* outside the declared bounds and held by the second operand alone, is stored
C3_Witness ==
    /\ call.op = "add" /\ call.err = NoError /\ call.self # call.other
    /\ LET M == heap[call.self]
           N == heap[call.other]
           R == heap[call.ret]
       IN /\ \E key \in DOMAIN M.data \cap DOMAIN N.data : key \notin DOMAIN R.data
          /\ \E key \in DOMAIN R.data :
                /\ key \notin Cells(R.num_rows, R.num_cols)
                /\ key \notin DOMAIN M.data

\* C4: subtracting N from the object M.add(N) returned gives a matrix with the
\* dimensions and exactly the stored entries of M.
C4_SubtractInvertsAdd ==
    [][(/\ call.op = "add" /\ call.err = NoError
        /\ call'.op = "subtract" /\ call'.err = NoError
        /\ call'.self = call.ret /\ call'.other = call.other)
          => heap'[call'.ret] = heap[call.self]]_vars

\* M.add(N).subtract(N) has been computed for an M and an N that cancel at a
\* coordinate, so that M.add(N) does not store it
C4_Witness ==
    /\ call.op = "subtract" /\ call.err = NoError
    /\ origin[call.self].op = "add" /\ origin[call.self].other = call.other
    /\ origin[call.self].self # call.other
    /\ LET M == heap[origin[call.self].self]
           N == heap[call.other]
       IN /\ \E key \in DOMAIN M.data \cap DOMAIN N.data :
                key \notin DOMAIN heap[call.self].data
          /\ heap[call.ret] = M

\* C5: add and subtract raise the dimension error exactly when the rows or the
\* cols of the operands differ, multiply exactly when self.cols # other.rows;
\* a call that raises returns no object and leaves the heap as it was.
C5_DimensionMismatch ==
    [][call'.op \in ArithOps =>
        LET M == heap[call'.self]
            N == heap[call'.other]
            differ == IF call'.op = "multiply" THEN M.num_cols # N.num_rows
                      ELSE M.num_rows # N.num_rows \/ M.num_cols # N.num_cols
        IN /\ (call'.err # NoError) <=> differ
           /\ differ => /\ IsDimensionMismatch(call'.err)
                        /\ call'.ret = 0
                        /\ heap' = heap
           /\ ~differ => /\ call'.ret = Len(heap) + 1
                         /\ Len(heap') = Len(heap) + 1]_vars

\* multiply has raised on two operands of the same dimensions (which add accepts)
C5_Witness ==
    /\ call.op = "multiply" /\ call.err # NoError /\ call.self # call.other
    /\ heap[call.self].num_rows = heap[call.other].num_rows
    /\ heap[call.self].num_cols = heap[call.other].num_cols
    /\ Nnz(heap[call.self]) > 0 /\ Nnz(heap[call.other]) > 0

\* C6: add, subtract and multiply leave every object that existed, both
\* operands among them, as it was, and return an object that did not exist; a
\* set_element changes no object but the one it is called on.
C6_OperandsUnchanged ==
    [][/\ call'.op \in ArithOps =>
            /\ \A i \in Refs : heap'[i] = heap[i]
            /\ call'.err = NoError =>
                  /\ call'.ret \notin Refs
                  /\ call'.ret \in 1..Len(heap')
       /\ call'.op = "set_element" =>
            /\ Len(heap') = Len(heap)
            /\ \A i \in Refs \ {call'.self} : heap'[i] = heap[i]]_vars

\* a set_element has changed the object M.add(M) returned, and M still holds
\* what it held
C6_Witness ==
    /\ call.op = "set_element" /\ call.self \in Results
    /\ origin[call.self] = Origin("add", 1, 1)
    /\ Nnz(heap[1]) > 0
    /\ <<call.row, call.col>> \in DOMAIN heap[1].data
    /\ get_element(heap[call.self], call.row, call.col)
         # 2 * get_element(heap[1], call.row, call.col)
    /\ \A key \in Keys : get_element(heap[1], key[1], key[2]) = last_set[1][key]

\* C7: get_element(r, c) is the value of the most recent set_element at (r, c),
\* or 0 if there was none, inside and outside the declared bounds, and this is
\* what a get_element call returns.
C7_GetReturnsLastSet ==
    /\ \A i \in Refs : \A key \in Keys :
          get_element(heap[i], key[1], key[2]) = last_set[i][key]
    /\ call.op = "get_element" =>
          call.ret = last_set[call.self][<<call.row, call.col>>]
    /\ (call.op = "set_element" /\ call.value # 0) =>
          get_element(heap[call.self], call.row, call.col) = call.value

\* get_element has returned the second of two values set at a coordinate outside
\* the declared bounds
C7_Witness ==
    /\ call.op = "get_element" /\ call.ret # 0 /\ nsets >= 2
    /\ call.row >= heap[call.self].num_rows
    /\ Nnz(heap[call.self]) = 1
    /\ \A key \in Keys \ {<<call.row, call.col>>} : last_set[call.self][key] = 0
    /\ call.ret = 0 - 1

\* the value of the last of the entry lines naming the coordinate, 0 if none does
LastWrite(entries, key) ==
    LET named == {i \in 1..Len(entries) :
                     <<entry_fields(entries[i])[1], entry_fields(entries[i])[2]>> = key}
    IN IF named = {} THEN 0
       ELSE entry_fields(entries[CHOOSE i \in named : \A h \in named : h <= i])[3]

Scenario3 == <<"r", "o", "w", "s", "=", "2", "\n", "c", "o", "l", "s", "=", "2", "\n", "(", "0", ",", " ", "0", ",", " ", "5", ")", "\n", "(", "0", ",", " ", "0", ",", " ", "0", ")">>

Scenario3Reversed == <<"r", "o", "w", "s", "=", "2", "\n", "c", "o", "l", "s", "=", "2", "\n", "(", "0", ",", " ", "0", ",", " ", "0", ")", "\n", "(", "0", ",", " ", "0", ",", " ", "5", ")">>

\* C8: a decoded matrix holds, at every coordinate, the value of the last entry
\* line naming it, and does not store a coordinate whose last line has value 0;
\* (0, 0, 5) followed by (0, 0, 0) decodes to no stored entry.
C8_DecodeLastWriteWins ==
    (call.op = "from_file" /\ call.err = NoError) =>
        LET text == disk[call.path].text
            lines == file_lines(text)
            entries == SubSeq(lines, 3, Len(lines))
            R == heap[call.ret]
        IN /\ \A key \in Keys :
                /\ get_element(R, key[1], key[2]) = LastWrite(entries, key)
                /\ key \in DOMAIN R.data <=> LastWrite(entries, key) # 0
           /\ DOMAIN R.data \subseteq Keys
           /\ text = Scenario3 => R = SparseMatrix(2, 2)
           /\ text = Scenario3Reversed =>
                R = [num_rows |-> 2, num_cols |-> 2, data |-> (<<0, 0>> :> 5)]

\* the text with (0, 0, 5) and then (0, 0, 0) has been decoded
C8_Witness ==
    /\ call.op = "from_file" /\ call.err = NoError
    /\ disk[call.path].text = Scenario3
    /\ heap[call.ret].data = EmptyDict

\* C9: a failure to open the file is surfaced as a storage-access error, which a
\* format error (raised for a malformed text) is not.
C9_StorageErrorDistinct ==
    /\ (call.op = "from_file" /\ ~disk[call.path].exists) =>
          IsStorageError(call.err) /\ ~IsFormatError(call.err)
    /\ (call.op = "save_to_file" /\ ~disk[call.path].writable) =>
          IsStorageError(call.err) /\ ~IsFormatError(call.err)
    /\ (call.op = "from_file" /\ disk[call.path].exists /\ call.err # NoError) =>
          IsFormatError(call.err) /\ ~IsStorageError(call.err)

\* the number of stored keys up to and including key, in (row, col) order
Rank(m, key) ==
    Cardinality({k \in DOMAIN m.data :
                    k[1] < key[1] \/ (k[1] = key[1] /\ k[2] <= key[2])})

Scenario4 == <<"r", "o", "w", "s", "=", "2", "\n", "c", "o", "l", "s", "=", "2", "\n", "(", "0", ",", " ", "1", ",", " ", "2", ")", "\n", "(", "1", ",", " ", "0", ",", " ", "3", ")">>

WideText == <<"r", "o", "w", "s", "=", "1", "2", "\n", "c", "o", "l", "s", "=", "1", "0", "\n", "(", "0", ",", " ", "0", ",", " ", "-", "1", "0", "5", ")", "\n", "(", "2", ",", " ", "9", ",", " ", "1", "0", ")", "\n", "(", "2", ",", " ", "1", "1", ",", " ", "-", "7", ")", "\n", "(", "1", "1", ",", " ", "2", ",", " ", "1", "2", "0", ")">>

\* C10: the string form is the rows= line, the cols= line and one (r, c, v) line
\* per stored entry, in ascending (row, col) order, and nothing else.
C10_EncodeSorted ==
    call.op = "__str__" =>
        LET m == heap[call.self]
            lines == split(call.text, "\n")
        IN /\ Len(lines) = 2 + Nnz(m)
           /\ lines[1] = ROWS \o str_int(m.num_rows)
           /\ lines[2] = COLS \o str_int(m.num_cols)
           /\ \A key \in DOMAIN m.data :
                lines[2 + Rank(m, key)] = entry_line(key[1], key[2], m.data[key])
           /\ m = Example4 => call.text = Scenario4
           /\ m = Wide => call.text = WideText

\* the matrix {(1,0): 3, (0,1): 2} has been encoded
C10_Witness ==
    /\ call.op = "__str__"
    /\ heap[call.self] = Example4
    /\ call.text = Scenario4
====
